---- MODULE Spec2Model ----
(***************************************************************************)
(* The ingestion pipeline of the Chronicling America stack: the Step       *)
(* Functions state machine "PipelineStateMachine" that chains LambdaInvoke *)
(* tasks, as declared in the three versions of the CDK stack               *)
(*   src/unnamed/part_005  (images -> pdf -> extraction -> Neptune ->      *)
(*                          S3 export -> optional KB sync),                *)
(*   src/unnamed/part_004  (images -> pdf -> extraction -> Neptune ->      *)
(*                          KB sync),                                      *)
(*   src/backend/lib/chronicling-america-stack.ts (collect -> extract ->   *)
(*                          entities -> Neptune).                          *)
(* A stage is a LambdaInvoke task, a run is one execution of the state     *)
(* machine, the record of a run is what describe-execution and the         *)
(* execution history show.                                                 *)
(***************************************************************************)
EXTENDS Integers, Sequences, FiniteSets, TLC

(***************************************************************************)
(* Bounds of the model.                                                    *)
(***************************************************************************)
\* Invocations a task makes of its Lambda when every one of them ends in a
\* retried service exception: the first one plus the retries the
\* retryOnServiceExceptions retrier grants (the construct library sets the
\* retrier's interval, rate and number of retries; the number is kept small
\* here).
MaxAttempts == 3
\* Last instant of the wall clock, in hours.
MaxClock == 2
\* Failed invocations the Lambdas produce in all while two executions run
\* side by side.
MaxFaults == 1

\* The executions that are started (execution ARNs).
ExecutionIds == {"exec-1", "exec-2"}

(***************************************************************************)
(* Errors a Lambda invocation ends with.                                   *)
(***************************************************************************)
\* retryOnServiceExceptions: true puts a retrier on the task for the
\* exceptions of the Lambda service itself.
ServiceExceptions ==
    {"Lambda.ServiceException", "Lambda.SdkClientException"}
\* Errors no retrier of the task names: throttling of the function, the
\* function running into its own timeout, an exception raised by the handler.
OtherErrors ==
    {"Lambda.TooManyRequestsException", "Sandbox.Timedout", "HandlerError"}
ErrorNames == ServiceExceptions \cup OtherErrors

\* Error of an execution that ran into the state machine's timeout.
StatesTimeout == "States.Timeout"

(***************************************************************************)
(* The tasks.  catch is the kind of state the task's catcher leads to      *)
(* ("None" when the task has no addCatch), catchState the id of that state.*)
(***************************************************************************)
LambdaInvoke(id, lambdaFunction, catch, catchState, catchError) ==
    [id |-> id, lambdaFunction |-> lambdaFunction,
     outputPath |-> "$.Payload", retryOnServiceExceptions |-> TRUE,
     catch |-> catch, catchState |-> catchState, catchError |-> catchError,
     resultPath |-> "$.error"]

collectImagesTask ==
    LambdaInvoke("CollectImages", "imageCollectorFunction", "None", "", "")

imageToPdfTask ==
    LambdaInvoke("ImageToPdf", "imageToPdfFunction", "None", "", "")

bedrockDataAutomationTask ==
    LambdaInvoke("BedrockDataAutomation", "bedrockDataAutomationFunction",
                 "Fail", "ExtractionFailed", "ExtractionError")

dataExtractorTask ==
    LambdaInvoke("DataExtractor", "dataExtractorFunction",
                 "Fail", "DataExtractionFailed", "DataExtractionError")

loadToNeptuneTask ==
    LambdaInvoke("LoadToNeptune", "neptuneLoaderFunction",
                 "Fail", "NeptuneLoadFailed", "NeptuneLoadError")

exportToS3Task ==
    LambdaInvoke("ExportToS3", "neptuneExporterFunction",
                 "Fail", "ExportFailed", "ExportError")

\* part_005: the catcher of the sync task leads to a Succeed state.
syncKBTask ==
    LambdaInvoke("SyncKnowledgeBase", "kbSyncTriggerFunction",
                 "Succeed", "KBSyncSkipped", "")

\* Variant: the sync task of part_004 with the catcher of part_005.
kbSyncTaskTolerable ==
    LambdaInvoke("TriggerKBSync", "kbSyncTriggerFunction",
                 "Succeed", "KBSyncSkipped", "")

\* part_004: the catcher of the sync task leads to a Fail state.
kbSyncTask ==
    LambdaInvoke("TriggerKBSync", "kbSyncTriggerFunction",
                 "Fail", "KBSyncFailed", "KBSyncError")

\* chronicling-america-stack.ts: tasks without catchers.
extractDataTask ==
    LambdaInvoke("ExtractData", "dataExtractorFunction", "None", "", "")

extractEntitiesTask ==
    LambdaInvoke("ExtractEntities", "entityExtractorFunction", "None", "", "")

loadToNeptuneTaskPlain ==
    LambdaInvoke("LoadToNeptune", "neptuneLoaderFunction", "None", "", "")

(***************************************************************************)
(* The chains (const definition = a.next(b).next(c)...).                   *)
(***************************************************************************)
\* Variant: the chain of part_005 without the export task.
\* Variant: the DataExtractor task chained after the data automation.
definitionWithDataExtractor ==
    << collectImagesTask, imageToPdfTask, bedrockDataAutomationTask,
       dataExtractorTask, loadToNeptuneTask, exportToS3Task, syncKBTask >>

definitionWithoutExport ==
    << collectImagesTask, imageToPdfTask, bedrockDataAutomationTask,
       loadToNeptuneTask, syncKBTask >>

\* Variant: the sync task chained before the export.
definitionSyncBeforeExport ==
    << collectImagesTask, imageToPdfTask, bedrockDataAutomationTask,
       loadToNeptuneTask, syncKBTask, exportToS3Task >>

definitionSemiAutomated ==
    << collectImagesTask, imageToPdfTask, bedrockDataAutomationTask,
       loadToNeptuneTask, exportToS3Task, syncKBTask >>

definitionFullyAutomated ==
    << collectImagesTask, imageToPdfTask, bedrockDataAutomationTask,
       loadToNeptuneTask, kbSyncTask >>

definitionBasic ==
    << collectImagesTask, extractDataTask, extractEntitiesTask,
       loadToNeptuneTaskPlain >>

Definitions ==
    {definitionSemiAutomated, definitionFullyAutomated, definitionBasic}

\* stateMachine: timeout: cdk.Duration.hours(2)
StateMachineTimeout == 2


(***************************************************************************)
(* Payloads are JSON objects: functions from keys to values.  An execution *)
(* input as test-pipeline.sh passes it, with the list the stage stubs      *)
(* append their marker to.                                                 *)
(***************************************************************************)
ExecutionInputs ==
    { [max_pages |-> 2, markers |-> << >>],
      [max_pages |-> 5, markers |-> << "seed" >>] }

NoRecord == [status |-> "NONE"]
NoRequest == [none |-> TRUE]
NoError == "none"

\* The stage executor: a Lambda handler that returns its event with the
\* task's marker appended.
Handler(task, event) ==
    [event EXCEPT !.markers = Append(@, task.id)]

\* What the lambda:invoke integration hands back to the task.
TaskResult(task, event) ==
    [ExecutedVersion |-> "$LATEST", Payload |-> Handler(task, event),
     StatusCode |-> 200]

\* Variant: a task without outputPath, whose output is the whole result.
OutputPathWhole(task, result) ==
    result

\* outputPath: "$.Payload": the task's output is the Payload of the result.
OutputPath(task, result) ==
    IF task.outputPath = "$.Payload" THEN result.Payload ELSE result

\* Variant: a catcher without resultPath, whose target receives the error in
\* place of the task's input.
ResultPathWhole(task, input, err) ==
    [Error |-> err, Cause |-> "cause"]

\* Variant: a catcher with resultPath JsonPath.DISCARD, whose target receives
\* the task's input as it was.
ResultPathDiscard(task, input, err) ==
    input

\* resultPath: "$.error" of a catcher: the catcher's target receives the
\* task's input with the error placed under the key "error".
ResultPath(task, input, err) ==
    IF task.resultPath = "$.error"
    THEN [k \in DOMAIN input \cup {"error"} |->
             IF k = "error" THEN [Error |-> err, Cause |-> "cause"]
             ELSE input[k]]
    ELSE input

\* Variant: the retrier matches every error (States.ALL).
RetriableAll(task, err) ==
    task.retryOnServiceExceptions

\* Variant: the retrier also matches the throttling of the function.
RetriableThrottled(task, err) ==
    task.retryOnServiceExceptions
    /\ err \in ServiceExceptions \cup {"Lambda.TooManyRequestsException"}

\* The retrier that retryOnServiceExceptions adds matches the exceptions of
\* the Lambda service only.
Retriable(task, err) ==
    task.retryOnServiceExceptions /\ err \in ServiceExceptions

\* The retrier that retryOnServiceExceptions adds: the first retry follows
\* after IntervalSeconds, every further one after BackoffRate times the wait
\* before.
IntervalSeconds == 2
BackoffRate == 2

\* Variant: a retrier without backoff rate, every wait the same.
NextIntervalConstant(wait) ==
    IntervalSeconds

\* The wait before the next retry, from the wait before the last one (0
\* before the first retry).
NextInterval(wait) ==
    IF wait = 0 THEN IntervalSeconds ELSE wait * BackoffRate

\* Variant: one attempt more than the budget.
RetryGrantedOffByOne(task, err, retryCount) ==
    task.retryOnServiceExceptions /\ err \in ServiceExceptions
    /\ retryCount < MaxAttempts

\* Variant: a task without retrier (retryOnServiceExceptions: false).
RetryGrantedNever(task, err, retryCount) ==
    FALSE

\* A further attempt is granted while the retrier's budget lasts.
RetryGranted(task, err, retryCount) ==
    Retriable(task, err) /\ retryCount + 1 < MaxAttempts

\* Variant: a chain that leaves out the state after position i.
NextStageSkip(i) == i + 2

\* a.next(b): the state entered after the state at position i.
NextStage(i) == i + 1

\* Variant: every catcher swallows the error.
TolerableAll(task) == task.catch # "None"

\* Variant: the catcher of the sync task leads to a Fail state as well.
TolerableNever(task) == FALSE

\* The failure disposition of a task: a catcher into a Succeed state lets the
\* run succeed, anything else fails it.
Tolerable(task) == task.catch = "Succeed"
Fatal(task) == ~Tolerable(task)

VARIABLES
    definition,   \* the chain the state machine was built from
    build,        \* the candidate chain of the stack and how its synthesis went
    script,       \* responses the Lambdas are set to give, in order of invocation
    now,          \* wall clock, hours
    registry,     \* execution id -> record of the execution
    engine,       \* execution id -> position of the execution in the chain
    invocations,  \* execution id -> stage index -> Lambda invocations made
    returned      \* execution id -> payload the last successful Lambda returned

vars == << definition, build, script, now, registry, engine, invocations, returned >>

N == Len(definition)
Ids == DOMAIN registry
\* Positions of the longest chain.
Stages == 1 .. Len(definitionSemiAutomated)

Started(id) == registry[id].status # "NONE"

\* Variant: an execution counts as running whatever its status.
RunningAnyStatus(id) == registry[id].status # "NONE"

Running(id) == registry[id].status = "RUNNING"
Sealed(id) == registry[id].status \in {"SUCCEEDED", "FAILED", "TIMED_OUT"}

\* Variant: a state machine without timeout.
ExpiredNever(id) ==
    FALSE

\* timeout: cdk.Duration.hours(2), measured from the start of the execution.
Expired(id) ==
    Started(id) /\ now - registry[id].startedAt >= StateMachineTimeout

\* aws stepfunctions describe-execution: the record of id as it is now.
DescribeExecution(id) == registry[id]

CurrentTask(id) == definition[engine[id].current]

\* Variant: the history of an execution grows at its front.
AppendOutcomeFront(outcomes, outcome) == << outcome >> \o outcomes

\* Variant: the record keeps the outcome of the latest stage only.
AppendOutcomeReplace(outcomes, outcome) == << outcome >>

\* The history of an execution grows at its end.
AppendOutcome(outcomes, outcome) == Append(outcomes, outcome)

\* Variant: the outcome of a stage does not keep the error.
OutcomeWithoutError(task, attempts, status, err) ==
    [stageName |-> task.id, attempts |-> attempts, status |-> status,
     error |-> NoError]

\* Variant: the outcome counts the retries, not the attempts.
OutcomeCountsRetries(task, attempts, status, err) ==
    [stageName |-> task.id, attempts |-> attempts - 1, status |-> status,
     error |-> err]

Outcome(task, attempts, status, err) ==
    [stageName |-> task.id, attempts |-> attempts, status |-> status,
     error |-> err]

\* The state before any execution is started, for the executions ids.
InitExecutions(ids) ==
    /\ now = 0
    /\ registry = [id \in ids |-> NoRecord]
    /\ engine = [id \in ids |->
                    [current |-> 0, pc |-> "idle", retryCount |-> 0,
                     wait |-> 0, request |-> NoRequest]]
    /\ invocations = [id \in ids |-> [s \in Stages |-> 0]]
    /\ returned = [id \in ids |-> NoRequest]

\* The state machine of one of the stacks is deployed, no execution started.
InitWith(ids) ==
    /\ definition \in Definitions
    /\ build = [candidate |-> definition, status |-> "built"]
    /\ script = << >>
    /\ InitExecutions(ids)

\* One execution.
SingleIds == {"exec-1"}

Init == InitWith(SingleIds)

\* aws stepfunctions start-execution --input ...
\* Variant: the start runs the first task before it returns.
StartExecutionSync(id, input) ==
    /\ build.status = "built"
    /\ ~Started(id)
    /\ registry' = [registry EXCEPT ![id] =
          [executionId |-> id, status |-> "RUNNING", startedAt |-> now,
           endedAt |-> -1, input |-> input, payload |-> input,
           stageOutcomes |-> << >>, error |-> NoError]]
    /\ engine' = [engine EXCEPT ![id] =
          [current |-> 1, pc |-> "pending", retryCount |-> 0,
           wait |-> 0, request |-> input]]
    /\ invocations' = [invocations EXCEPT ![id][1] = @ + 1]
    /\ UNCHANGED << definition, build, script, now, returned >>

StartExecution(id, input) ==
    /\ build.status = "built"
    /\ ~Started(id)
    /\ registry' = [registry EXCEPT ![id] =
          [executionId |-> id, status |-> "RUNNING", startedAt |-> now,
           endedAt |-> -1, input |-> input, payload |-> input,
           stageOutcomes |-> << >>, error |-> NoError]]
    /\ engine' = [engine EXCEPT ![id] =
          [current |-> 1, pc |-> "ready", retryCount |-> 0,
           wait |-> 0, request |-> NoRequest]]
    /\ UNCHANGED << definition, build, script, now, invocations, returned >>

\* Variant: the task takes its input from a state shared by the executions.
InvokeShared(id) ==
    /\ Running(id) /\ ~Expired(id)
    /\ engine[id].pc = "ready"
    /\ \E other \in Ids :
          /\ Started(other)
          /\ engine' = [engine EXCEPT ![id].pc = "pending",
                                      ![id].request = registry[other].payload]
    /\ invocations' = [invocations EXCEPT ![id][engine[id].current] = @ + 1]
    /\ UNCHANGED << definition, build, script, now, registry, returned >>

\* Variant: the task is invoked again while an invocation is in flight.
InvokeWhilePending(id) ==
    /\ Running(id) /\ ~Expired(id)
    /\ engine[id].pc \in {"ready", "pending"}
    /\ engine' = [engine EXCEPT ![id].pc = "pending",
                                ![id].request = registry[id].payload]
    /\ invocations' = [invocations EXCEPT ![id][engine[id].current] = @ + 1]
    /\ UNCHANGED << definition, build, script, now, registry, returned >>

\* Variant: the task adds the id of the execution to the Lambda's event.
InvokeWithContext(id) ==
    /\ Running(id) /\ ~Expired(id)
    /\ engine[id].pc = "ready"
    /\ engine' = [engine EXCEPT
          ![id].pc = "pending",
          ![id].request =
              [k \in DOMAIN registry[id].payload \cup {"executionId"} |->
                  IF k = "executionId" THEN id ELSE registry[id].payload[k]]]
    /\ invocations' = [invocations EXCEPT ![id][engine[id].current] = @ + 1]
    /\ UNCHANGED << definition, build, script, now, registry, returned >>

\* The current task invokes its Lambda with the state's input.
Invoke(id) ==
    /\ Running(id) /\ ~Expired(id)
    /\ engine[id].pc = "ready"
    /\ engine' = [engine EXCEPT ![id].pc = "pending",
                                ![id].request = registry[id].payload]
    /\ invocations' = [invocations EXCEPT ![id][engine[id].current] = @ + 1]
    /\ UNCHANGED << definition, build, script, now, registry, returned >>

\* The Lambda returns: the task's output becomes the input of the next state,
\* or the output of the execution after the last task.
TaskSucceeded(id) ==
    /\ Running(id) /\ ~Expired(id)
    /\ engine[id].pc = "pending"
    /\ LET task == CurrentTask(id)
           result == TaskResult(task, engine[id].request)
           output == OutputPath(task, result)
           outcome == Outcome(task, engine[id].retryCount + 1, "Succeeded",
                              NoError)
           last == engine[id].current = N
       IN /\ registry' = [registry EXCEPT
                ![id].payload = output,
                ![id].stageOutcomes = AppendOutcome(@, outcome),
                ![id].status = IF last THEN "SUCCEEDED" ELSE @,
                ![id].endedAt = IF last THEN now ELSE @]
          /\ engine' = [engine EXCEPT ![id] =
                IF last
                THEN [current |-> @.current, pc |-> "done",
                      retryCount |-> @.retryCount, wait |-> @.wait,
                      request |-> NoRequest]
                ELSE [current |-> NextStage(@.current), pc |-> "ready",
                      retryCount |-> 0, wait |-> 0, request |-> NoRequest]]
          /\ returned' = [returned EXCEPT ![id] = result.Payload]
    /\ UNCHANGED << definition, build, script, now, invocations >>

\* Variant: a task whose retries are over is recorded as failed, whatever
\* its catcher leads to.
FailureStatusFailed(task) == "Failed"

\* What the history records for a task whose retries are over: skipped when
\* its catcher leads on to the end of the execution, failed otherwise.
FailureStatus(task) == IF Tolerable(task) THEN "Skipped" ELSE "Failed"

\* Variant: a failed task sends the execution back to the first task.
TaskFailedRestart(id, err) ==
    /\ Running(id) /\ ~Expired(id)
    /\ engine[id].pc = "pending"
    /\ engine' = [engine EXCEPT ![id] =
          [current |-> 1, pc |-> "ready", retryCount |-> 0,
           wait |-> 0, request |-> NoRequest]]
    /\ UNCHANGED << definition, build, script, now, registry, invocations, returned >>

\* The invocation ends with an error: the retrier is consulted first, then
\* the catcher; without a catcher the execution fails with the error.
TaskFailed(id, err) ==
    /\ Running(id) /\ ~Expired(id)
    /\ engine[id].pc = "pending"
    /\ LET task == CurrentTask(id)
           attempts == engine[id].retryCount + 1
       IN IF RetryGranted(task, err, engine[id].retryCount)
          THEN /\ engine' = [engine EXCEPT ![id].pc = "backoff",
                                           ![id].retryCount = @ + 1,
                                           ![id].wait = NextInterval(@),
                                           ![id].request = NoRequest]
               /\ UNCHANGED registry
          ELSE /\ engine' = [engine EXCEPT ![id].pc = "done",
                                           ![id].request = NoRequest]
               /\ registry' = [registry EXCEPT
                     ![id].payload =
                         IF task.catch = "None" THEN @
                         ELSE ResultPath(task, @, err),
                     ![id].stageOutcomes =
                         AppendOutcome(@, Outcome(task, attempts,
                                 FailureStatus(task), err)),
                     ![id].status =
                         IF Tolerable(task) THEN "SUCCEEDED" ELSE "FAILED",
                     ![id].error =
                         IF task.catch = "None" THEN err
                         ELSE IF task.catch = "Fail" THEN task.catchError
                         ELSE @,
                     ![id].endedAt = now]
    /\ UNCHANGED << definition, build, script, now, invocations, returned >>

\* Variant: a retrier whose wait never ends.
RetryWaitOverNever(id) ==
    FALSE

\* The retrier's interval has passed: the task is attempted again.
RetryWaitOver(id) ==
    /\ Running(id) /\ ~Expired(id)
    /\ engine[id].pc = "backoff"
    /\ engine' = [engine EXCEPT ![id].pc = "ready"]
    /\ UNCHANGED << definition, build, script, now, registry, invocations, returned >>

\* Variant: the timeout is an error of the current task, which its catcher
\* handles.
ExecutionTimedOutCaught(id) ==
    /\ Running(id) /\ Expired(id)
    /\ LET task == CurrentTask(id)
       IN registry' = [registry EXCEPT
             ![id].status =
                 IF Tolerable(task) THEN "SUCCEEDED" ELSE "TIMED_OUT",
             ![id].stageOutcomes =
                 IF Tolerable(task)
                 THEN AppendOutcome(@, Outcome(task,
                          invocations[id][engine[id].current], "Skipped",
                          StatesTimeout))
                 ELSE @,
             ![id].error = IF Tolerable(task) THEN @ ELSE StatesTimeout,
             ![id].endedAt = now]
    /\ engine' = [engine EXCEPT ![id].pc = "done",
                                ![id].request = NoRequest]
    /\ UNCHANGED << definition, build, script, now, invocations, returned >>

\* The state machine's timeout ends a running execution, whatever it is
\* doing: a pending invocation is abandoned, a waiting retry is dropped.
ExecutionTimedOut(id) ==
    /\ Running(id) /\ Expired(id)
    /\ registry' = [registry EXCEPT ![id].status = "TIMED_OUT",
                                    ![id].error = StatesTimeout,
                                    ![id].endedAt = now]
    /\ engine' = [engine EXCEPT ![id].pc = "done",
                                ![id].request = NoRequest]
    /\ UNCHANGED << definition, build, script, now, invocations, returned >>

\* An hour passes.  An execution whose timeout is due is ended first.
Tick ==
    /\ now < MaxClock
    /\ \A id \in Ids : ~(Running(id) /\ Expired(id))
    /\ now' = now + 1
    /\ UNCHANGED << definition, build, script, registry, engine, invocations, returned >>

Step(id) ==
    \/ \E input \in ExecutionInputs : StartExecution(id, input)
    \/ Invoke(id)
    \/ TaskSucceeded(id)
    \/ \E err \in ErrorNames : TaskFailed(id, err)
    \/ RetryWaitOver(id)
    \/ ExecutionTimedOut(id)

Next ==
    \/ \E id \in Ids : Step(id)
    \/ Tick

Spec == Init /\ [][Next]_vars

(***************************************************************************)
(* The service drives every started execution on: a task that is due is    *)
(* invoked, an invocation returns or ends with an error (the function's    *)
(* own timeout among them), a retry wait ends, a due timeout is applied,   *)
(* and time passes.                                                        *)
(***************************************************************************)
Progress(id) ==
    \/ Invoke(id)
    \/ TaskSucceeded(id)
    \/ \E err \in ErrorNames : TaskFailed(id, err)
    \/ RetryWaitOver(id)
    \/ ExecutionTimedOut(id)

Fairness ==
    /\ WF_vars(Tick)
    /\ \A id \in SingleIds : WF_vars(Progress(id))

SpecFair == Init /\ [][Next]_vars /\ Fairness

(***************************************************************************)
(* Two executions of the same state machine side by side.  The Lambdas     *)
(* fail at most MaxFaults times in all.                                    *)
(***************************************************************************)
RECURSIVE FailedAttempts(_)
FailedAttempts(outcomes) ==
    IF outcomes = << >> THEN 0
    ELSE LET o == Head(outcomes)
         IN (IF o.status = "Succeeded" THEN o.attempts - 1 ELSE o.attempts)
            + FailedAttempts(Tail(outcomes))

Faults(id) ==
    IF ~Started(id) THEN 0
    ELSE FailedAttempts(registry[id].stageOutcomes)
         + (IF registry[id].status \in {"RUNNING", "TIMED_OUT"}
            THEN engine[id].retryCount ELSE 0)

RECURSIVE SumFaults(_)
SumFaults(ids) ==
    IF ids = {} THEN 0
    ELSE LET id == CHOOSE i \in ids : TRUE
         IN Faults(id) + SumFaults(ids \ {id})

InitConcurrent == InitWith(ExecutionIds)

\* Each execution is started with an input of its own.
ConcurrentInput(id) ==
    IF id = "exec-1" THEN [max_pages |-> 2, markers |-> << >>]
    ELSE [max_pages |-> 5, markers |-> << "seed" >>]

\* One service exception and one error of the handler.
ConcurrentErrors == {"Lambda.ServiceException", "HandlerError"}

StepConcurrent(id) ==
    \/ StartExecution(id, ConcurrentInput(id))
    \/ Invoke(id)
    \/ TaskSucceeded(id)
    \/ \E err \in ConcurrentErrors :
          SumFaults(Ids) < MaxFaults /\ TaskFailed(id, err)
    \/ RetryWaitOver(id)
    \/ ExecutionTimedOut(id)

NextConcurrent ==
    \/ \E id \in Ids : StepConcurrent(id)
    \/ Tick

SpecConcurrent == InitConcurrent /\ [][NextConcurrent]_vars

(***************************************************************************)
(* Two executions of the same state machine on the same input whose        *)
(* Lambdas give the same responses: the n-th invocation an execution makes *)
(* is answered by the n-th entry of the script, and succeeds once the      *)
(* script is used up.                                                      *)
(***************************************************************************)
TwinInput == ConcurrentInput("exec-1")

Responses == {"ok"} \cup ConcurrentErrors

Scripts == [1 .. MaxAttempts -> Responses]

RECURSIVE InvocationsMade(_, _)
InvocationsMade(id, stages) ==
    IF stages = {} THEN 0
    ELSE LET s == CHOOSE t \in stages : TRUE
         IN invocations[id][s] + InvocationsMade(id, stages \ {s})

\* The response to the invocation of id that is in flight.
NextResponse(id) ==
    LET n == InvocationsMade(id, Stages)
    IN IF n \in 1 .. Len(script) THEN script[n] ELSE "ok"

InitTwin ==
    /\ definition \in Definitions
    /\ build = [candidate |-> definition, status |-> "built"]
    /\ script \in Scripts
    /\ InitExecutions(ExecutionIds)

StepTwin(id) ==
    \/ StartExecution(id, TwinInput)
    \/ Invoke(id)
    \/ NextResponse(id) = "ok" /\ TaskSucceeded(id)
    \/ \E err \in ConcurrentErrors :
          NextResponse(id) = err /\ TaskFailed(id, err)
    \/ RetryWaitOver(id)
    \/ ExecutionTimedOut(id)

NextTwin ==
    \/ \E id \in Ids : StepTwin(id)
    \/ Tick

SpecTwin == InitTwin /\ [][NextTwin]_vars

(***************************************************************************)
(* Synthesis of the stack.  The tasks are constructs of one scope          *)
(* (new tasks.LambdaInvoke(this, id, ...)) and the construct library       *)
(* refuses a second construct with an id the scope already has: the        *)
(* synthesis fails, no state machine exists and no execution can start.    *)
(* Nothing else of a chain is checked.                                     *)
(***************************************************************************)
\* Candidate chains the repository does not have.
candidateDuplicateIds ==
    << collectImagesTask, loadToNeptuneTaskPlain, loadToNeptuneTask >>

candidateTolerableInner ==
    << collectImagesTask, syncKBTask, exportToS3Task >>

Candidates ==
    Definitions \cup {candidateDuplicateIds, candidateTolerableInner}

ConstructIds(chain) == {chain[k].id : k \in 1 .. Len(chain)}

InitBuild ==
    /\ definition = << >>
    /\ build \in [candidate : Candidates, status : {"pending"}]
    /\ script = << >>
    /\ InitExecutions(SingleIds)

\* Variant: a second construct with the same id replaces the first.
SynthUnchecked ==
    /\ build.status = "pending"
    /\ build' = [build EXCEPT !.status = "built"]
    /\ definition' = build.candidate
    /\ UNCHANGED << script, now, registry, engine, invocations, returned >>

Synth ==
    /\ build.status = "pending"
    /\ IF Cardinality(ConstructIds(build.candidate)) = Len(build.candidate)
       THEN /\ build' = [build EXCEPT !.status = "built"]
            /\ definition' = build.candidate
       ELSE /\ build' = [build EXCEPT !.status = "rejected"]
            /\ UNCHANGED definition
    /\ UNCHANGED << script, now, registry, engine, invocations, returned >>

NextBuild ==
    \/ Synth
    \/ \E id \in Ids : StepConcurrent(id)
    \/ Tick

SpecBuild == InitBuild /\ [][NextBuild]_vars


(***************************************************************************)
(* Properties.  A stage is a position of the chain; its executor is the    *)
(* Lambda of the task at that position; retry.maxAttempts is MaxAttempts;  *)
(* a transient error is one of ServiceExceptions; a stage is tolerable     *)
(* when its catcher leads to a Succeed state and fatal otherwise; the      *)
(* record status Failed is FAILED or TIMED_OUT.                            *)
(***************************************************************************)
StageOutcomes(id) == registry[id].stageOutcomes

\* The invocation of id's current stage ended with err and no retry follows.
FinalFailure(id, err) ==
    TaskFailed(id, err) /\ engine'[id].pc # "backoff"

\* C1: a stage is invoked only after every stage before it has an outcome
\* Succeeded or Skipped, in the order of the definition; a run in which no
\* invocation failed invokes each of the N stages exactly once.
C1_StagesInDefinitionOrder ==
    \A id \in Ids : Started(id) =>
        LET outcomes == StageOutcomes(id)
        IN /\ \A i \in Stages : invocations[id][i] > 0 =>
                 /\ i <= N
                 /\ \A j \in 1 .. (i - 1) :
                       /\ j <= Len(outcomes)
                       /\ outcomes[j].stageName = definition[j].id
                       /\ outcomes[j].status \in {"Succeeded", "Skipped"}
           /\ (registry[id].status = "SUCCEEDED"
                 /\ FailedAttempts(outcomes) = 0) =>
                 /\ Len(outcomes) = N
                 /\ \A i \in Stages :
                       invocations[id][i] = IF i <= N THEN 1 ELSE 0

\* A run of the six-stage chain in which every invocation succeeded.
C1_Witness ==
    \E id \in Ids :
        /\ Started(id) /\ registry[id].status = "SUCCEEDED"
        /\ N = 6 /\ Len(StageOutcomes(id)) = 6
        /\ FailedAttempts(StageOutcomes(id)) = 0
        /\ \A i \in 1 .. 6 : invocations[id][i] = 1

\* C2: no stage of any run is invoked more than MaxAttempts times.
C2_AttemptsWithinBudget ==
    \A id \in Ids : \A i \in Stages : invocations[id][i] <= MaxAttempts

\* A stage that used its whole budget and succeeded at the last attempt.
C2_Witness ==
    \E id \in Ids : Started(id) /\
        \E k \in 1 .. Len(StageOutcomes(id)) :
            /\ StageOutcomes(id)[k].status = "Succeeded"
            /\ StageOutcomes(id)[k].attempts = MaxAttempts
            /\ invocations[id][k] = MaxAttempts

\* C3: a stage that failed with a transient error at its last attempt (so at
\* every attempt) was invoked exactly MaxAttempts times; the run then is
\* FAILED with nothing invoked after it when the stage is fatal, and goes on
\* to its successful end when the stage is tolerable.
C3_TransientExhaustsBudget ==
    \A id \in Ids : Started(id) =>
        LET outcomes == StageOutcomes(id)
        IN \A k \in 1 .. Len(outcomes) :
              (outcomes[k].status # "Succeeded"
                 /\ outcomes[k].error \in ServiceExceptions) =>
                 /\ invocations[id][k] = MaxAttempts
                 /\ outcomes[k].attempts = MaxAttempts
                 /\ k = Len(outcomes)
                 /\ \A j \in Stages : j > k => invocations[id][j] = 0
                 /\ IF definition[k].catch = "Succeed"
                    THEN /\ registry[id].status = "SUCCEEDED"
                         /\ outcomes[k].status = "Skipped"
                    ELSE /\ registry[id].status = "FAILED"
                         /\ outcomes[k].status = "Failed"

\* The tolerable sync stage failed with a service exception at every attempt.
C3_Witness ==
    \E id \in Ids : Started(id) /\
        LET outcomes == StageOutcomes(id)
        IN /\ Len(outcomes) = N
           /\ definition[N].catch = "Succeed"
           /\ outcomes[N].status = "Skipped"
           /\ outcomes[N].error \in ServiceExceptions
           /\ invocations[id][N] = MaxAttempts
           /\ registry[id].status = "SUCCEEDED"

\* C4: when an invocation ends with a non-transient error the stage is not
\* invoked again: the disposition of the stage is applied in that very step,
\* the outcome counts the invocations made (one when it was the first
\* attempt), and a sealed run invokes nothing.
C4_NonTransientNotRetried ==
    [][\A id \in Ids :
          /\ \A err \in OtherErrors : TaskFailed(id, err) =>
                LET k == engine[id].current
                    outcomes == registry'[id].stageOutcomes
                IN /\ engine'[id].pc = "done"
                   /\ registry'[id].status =
                         IF definition[k].catch = "Succeed"
                         THEN "SUCCEEDED" ELSE "FAILED"
                   /\ Len(outcomes) = k
                   /\ outcomes[k].error = err
                   /\ outcomes[k].attempts = invocations[id][k]
                   /\ (engine[id].retryCount = 0 => invocations'[id][k] = 1)
          /\ Sealed(id) => invocations'[id] = invocations[id]
      ]_vars

\* A stage with a catcher failed at its first invocation with an error of
\* the handler.
C4_Witness ==
    \E id \in Ids : Started(id) /\
        LET outcomes == StageOutcomes(id)
            k == Len(outcomes)
        IN /\ k > 0
           /\ outcomes[k].status = "Failed"
           /\ outcomes[k].error \in OtherErrors
           /\ definition[k].catch = "Fail"
           /\ outcomes[k].attempts = 1
           /\ invocations[id][k] = 1
           /\ registry[id].status = "FAILED"


\* C5: when a fatal stage K < N fails for good, the run is FAILED, its
\* stageOutcomes has exactly K entries, the K-th being Failed; and a FAILED
\* run has invoked no stage after its last outcome.
C5_FatalFailureHalts ==
    /\ [][\A id \in Ids : \A err \in ErrorNames :
             (FinalFailure(id, err)
                /\ engine[id].current < N
                /\ definition[engine[id].current].catch # "Succeed") =>
                LET k == engine[id].current
                    outcomes == registry'[id].stageOutcomes
                IN /\ registry'[id].status = "FAILED"
                   /\ Len(outcomes) = k
                   /\ outcomes[k].stageName = definition[k].id
                   /\ outcomes[k].status = "Failed"
                   /\ outcomes[k].error = err
                   /\ engine'[id].pc = "done"
         ]_vars
    /\ [](\A id \in Ids :
             (Started(id) /\ registry[id].status = "FAILED") =>
                LET outcomes == StageOutcomes(id)
                    k == Len(outcomes)
                IN /\ k > 0
                   /\ outcomes[k].status = "Failed"
                   /\ engine[id].pc = "done"
                   /\ \A j \in Stages : j > k => invocations[id][j] = 0)

\* The Neptune load (stage 4 of 6) failed after three stages succeeded.
C5_Witness ==
    \E id \in Ids : Started(id) /\
        LET outcomes == StageOutcomes(id)
        IN /\ N = 6 /\ Len(outcomes) = 4
           /\ outcomes[4].status = "Failed"
           /\ registry[id].status = "FAILED"
           /\ \A j \in 1 .. 3 : outcomes[j].status = "Succeeded"
           /\ invocations[id][5] = 0 /\ invocations[id][6] = 0

\* C6: in a chain whose last stage alone is tolerable, the final failure of
\* the last stage ends the run SUCCEEDED with N outcomes, the N-th Skipped
\* and carrying the error, the others Succeeded.
C6_TolerableLastStage ==
    [][\A id \in Ids : \A err \in ErrorNames :
          (FinalFailure(id, err)
             /\ engine[id].current = N
             /\ definition[N].catch = "Succeed"
             /\ \A j \in 1 .. (N - 1) : definition[j].catch # "Succeed") =>
             LET outcomes == registry'[id].stageOutcomes
             IN /\ registry'[id].status = "SUCCEEDED"
                /\ Len(outcomes) = N
                /\ outcomes[N].status = "Skipped"
                /\ outcomes[N].error = err
                /\ \A j \in 1 .. (N - 1) : outcomes[j].status = "Succeeded"
      ]_vars

\* The sync stage failed with an error of its handler; the run succeeded.
C6_Witness ==
    \E id \in Ids : Started(id) /\
        LET outcomes == StageOutcomes(id)
        IN /\ Len(outcomes) = N
           /\ definition[N].catch = "Succeed"
           /\ outcomes[N].status = "Skipped"
           /\ outcomes[N].error = "HandlerError"
           /\ registry[id].status = "SUCCEEDED"
           /\ \A j \in 1 .. (N - 1) : outcomes[j].status = "Succeeded"

\* The markers of the stages of the chain, in order.
StageMarkers == [j \in 1 .. N |-> definition[j].id]

\* C7: stage 1 is invoked with the input of the execution and every later
\* stage with the payload the stage before it returned; after a run in which
\* every stage succeeded the payload holds the markers of all stages in
\* stage order.
C7_PayloadThreading ==
    /\ [][\A id \in Ids : Invoke(id) =>
             engine'[id].request =
                IF engine[id].current = 1 THEN registry[id].input
                ELSE returned[id]
         ]_vars
    /\ [](\A id \in Ids :
             (Started(id) /\ registry[id].status = "SUCCEEDED"
                /\ \A k \in 1 .. Len(StageOutcomes(id)) :
                      StageOutcomes(id)[k].status = "Succeeded") =>
                /\ registry[id].payload = returned[id]
                /\ registry[id].payload.markers =
                      registry[id].input.markers \o StageMarkers)

\* A run of the six-stage chain started with a marker already in its input.
C7_Witness ==
    \E id \in Ids :
        /\ Started(id) /\ registry[id].status = "SUCCEEDED"
        /\ registry[id].input.markers = << "seed" >>
        /\ registry[id].payload.markers =
              << "seed", "CollectImages", "ImageToPdf",
                 "BedrockDataAutomation", "LoadToNeptune", "ExportToS3",
                 "SyncKnowledgeBase" >>

\* C8 as stated: after a tolerable stage failed the payload is identical to
\* the output of the stage before it, nothing added or removed.
C8_PayloadUnchanged ==
    \A id \in Ids : Started(id) =>
        LET outcomes == StageOutcomes(id)
            k == Len(outcomes)
        IN (k > 1 /\ outcomes[k].status = "Skipped") =>
              registry[id].payload = returned[id]

\* C8 as amended: after a tolerable stage failed the payload is the output of
\* the stage before it with the caught error placed under the key "error":
\* every other key is kept with its value, no key is removed.
C8_PayloadGainsError ==
    \A id \in Ids : Started(id) =>
        LET outcomes == StageOutcomes(id)
            k == Len(outcomes)
            payload == registry[id].payload
        IN (k > 1 /\ outcomes[k].status = "Skipped") =>
              /\ DOMAIN payload = DOMAIN returned[id] \cup {"error"}
              /\ \A key \in DOMAIN returned[id] \ {"error"} :
                    payload[key] = returned[id][key]
              /\ payload["error"].Error = outcomes[k].error

\* The export returned a payload without "error"; the sync stage then failed.
C8_Witness ==
    \E id \in Ids : Started(id) /\
        LET outcomes == StageOutcomes(id)
            k == Len(outcomes)
        IN /\ k > 1 /\ outcomes[k].status = "Skipped"
           /\ "error" \notin DOMAIN returned[id]
           /\ "error" \in DOMAIN registry[id].payload
           /\ registry[id].payload.markers = returned[id].markers

\* What execution id alone produces from its own input and the responses its
\* own invocations got: the payload after its first k outcomes.
RECURSIVE Replay(_, _)
Replay(id, k) ==
    IF k = 0 THEN registry[id].input
    ELSE LET before == Replay(id, k - 1)
             o == StageOutcomes(id)[k]
             task == definition[k]
         IN IF o.status = "Succeeded" THEN Handler(task, before)
            ELSE IF task.catch = "None" THEN before
            ELSE ResultPath(task, before, o.error)

\* C9: with two executions of the same definition interleaved, every record
\* stays under its own execution id and holds what its execution produces
\* alone from its own input; a step of one execution leaves the record, the
\* position and the invocation counts of the other untouched.
C9_RunsIndependent ==
    /\ [](\A id \in Ids :
             IF Started(id)
             THEN LET outcomes == StageOutcomes(id)
                  IN /\ registry[id].executionId = id
                     /\ registry[id].payload = Replay(id, Len(outcomes))
                     /\ \A k \in 1 .. Len(outcomes) :
                           /\ outcomes[k].stageName = definition[k].id
                           /\ outcomes[k].attempts = invocations[id][k]
                     /\ engine[id].pc = "pending" =>
                           engine[id].request = registry[id].payload
             ELSE /\ engine[id].pc = "idle"
                  /\ \A i \in Stages : invocations[id][i] = 0)
    /\ [][\A id \in Ids : StepConcurrent(id) =>
             \A other \in Ids \ {id} :
                /\ registry'[other] = registry[other]
                /\ engine'[other] = engine[other]
                /\ invocations'[other] = invocations[other]
                /\ returned'[other] = returned[other]
         ]_vars

\* Both executions have an invocation pending at different stages, each
\* after outcomes of its own.
C9_Witness ==
    /\ \A id \in Ids : Started(id) /\ engine[id].pc = "pending"
                        /\ Len(StageOutcomes(id)) > 0
    /\ engine["exec-1"].current = 4 /\ engine["exec-2"].current = 2
    /\ registry["exec-1"].payload # registry["exec-2"].payload
    /\ engine["exec-1"].retryCount = 1

\* C10: once the timeout of a running execution has expired (measured from
\* startedAt) no invocation of it begins, time does not pass before it is
\* marked, and the only change to it is the mark TIMED_OUT with the error
\* States.Timeout; an execution is marked so only on expiry and a timed-out
\* execution invokes nothing and keeps its record.
C10_TimeoutStopsRun ==
    [][\A id \in Ids : Started(id) =>
          LET expired ==
                 now - registry[id].startedAt >= StateMachineTimeout
          IN /\ (registry[id].status = "RUNNING" /\ expired) =>
                   /\ invocations'[id] = invocations[id]
                   /\ now' = now
                   /\ \/ /\ registry'[id] = registry[id]
                         /\ engine'[id] = engine[id]
                      \/ /\ registry'[id].status = "TIMED_OUT"
                         /\ registry'[id].error = StatesTimeout
                         /\ registry'[id].endedAt = now
                         /\ registry'[id].stageOutcomes =
                               registry[id].stageOutcomes
                         /\ engine'[id].pc = "done"
             /\ (registry[id].status = "RUNNING"
                   /\ registry'[id].status = "TIMED_OUT") => expired
             /\ registry[id].status = "TIMED_OUT" =>
                   /\ invocations'[id] = invocations[id]
                   /\ registry'[id] = registry[id]
                   /\ engine'[id] = engine[id]
      ]_vars

\* An execution timed out while a retry of its second stage was due.
C10_Witness ==
    \E id \in Ids :
        /\ Started(id) /\ registry[id].status = "TIMED_OUT"
        /\ registry[id].error = StatesTimeout
        /\ engine[id].current = 2
        /\ engine[id].retryCount = 1
        /\ invocations[id][2] = 1


\* C11: sealing is irreversible: once an execution is SUCCEEDED, FAILED or
\* TIMED_OUT its record (status, endedAt, stageOutcomes, payload and the
\* rest) never changes again, nothing of it is invoked and it stays at its
\* end; and it was sealed by one step that set endedAt.
C11_SealedForGood ==
    [][\A id \in Ids : Started(id) =>
          /\ registry[id].status \in {"SUCCEEDED", "FAILED", "TIMED_OUT"} =>
                /\ registry'[id] = registry[id]
                /\ invocations'[id] = invocations[id]
                /\ engine'[id] = engine[id]
                /\ engine[id].pc = "done"
                /\ engine[id].request = NoRequest
          /\ (registry[id].status = "RUNNING"
                /\ registry'[id].status # "RUNNING") =>
                /\ registry'[id].status \in
                      {"SUCCEEDED", "FAILED", "TIMED_OUT"}
                /\ registry[id].endedAt = -1
                /\ registry'[id].endedAt = now
      ]_vars

\* An execution that succeeded at least an hour ago, its timeout now due.
C11_Witness ==
    \E id \in Ids :
        /\ Started(id) /\ registry[id].status = "SUCCEEDED"
        /\ registry[id].endedAt < now
        /\ now - registry[id].startedAt >= StateMachineTimeout


\* C12: every started execution eventually is SUCCEEDED, FAILED or
\* TIMED_OUT, whatever its invocations return.
C12_RunTerminates ==
    \A id \in SingleIds :
        [](registry[id].status = "RUNNING" =>
              <>(registry[id].status \in {"SUCCEEDED", "FAILED", "TIMED_OUT"}))

\* An execution that ended after a stage used its whole budget of attempts
\* and a later one failed.
C12_Witness ==
    \E id \in Ids :
        /\ Started(id) /\ registry[id].status = "FAILED"
        /\ Len(StageOutcomes(id)) >= 2
        /\ \E k \in 1 .. Len(StageOutcomes(id)) :
              /\ StageOutcomes(id)[k].status = "Succeeded"
              /\ StageOutcomes(id)[k].attempts = MaxAttempts

\* The stages that trigger the Knowledge Base sync.
KBSyncStage(task) == task.lambdaFunction = "kbSyncTriggerFunction"

C16_ErrorsCapturedInRecord ==
    /\ [](\A id \in Ids : Started(id) =>
            LET outcomes == StageOutcomes(id)
            IN /\ registry[id].status = "FAILED" =>
                     /\ outcomes # << >>
                     /\ outcomes[Len(outcomes)].status = "Failed"
                     /\ outcomes[Len(outcomes)].error \in ErrorNames
                     /\ registry[id].error # NoError
               /\ registry[id].status = "TIMED_OUT" =>
                     registry[id].error = StatesTimeout
               /\ \A k \in 1 .. Len(outcomes) :
                     outcomes[k].status = "Succeeded" <=>
                         outcomes[k].error = NoError)
    /\ [][\A id \in Ids : \A err \in ErrorNames :
             FinalFailure(id, err) =>
                 LET outcomes == registry'[id].stageOutcomes
                     last == outcomes[Len(outcomes)]
                 IN /\ registry'[id].status \in {"SUCCEEDED", "FAILED"}
                    /\ Len(outcomes) = Len(StageOutcomes(id)) + 1
                    /\ last.stageName = definition[engine[id].current].id
                    /\ last.attempts = engine[id].retryCount + 1
                    /\ last.status \in {"Failed", "Skipped"}
                    /\ last.error = err
                    /\ engine'[id].pc = "done"
       ]_vars

\* The handler of the second stage raised an error at its first attempt.
C16_Witness ==
    \E id \in Ids :
        /\ Started(id) /\ registry[id].status = "FAILED"
        /\ Len(StageOutcomes(id)) = 2
        /\ StageOutcomes(id)[2].error = "HandlerError"
        /\ StageOutcomes(id)[2].attempts = 1
        /\ registry[id].error = "HandlerError"

\* C17: the step that starts an execution only creates its record, RUNNING
\* and without any stage invoked; from then on a read by the execution's id
\* returns the record of that execution, whose status is RUNNING exactly
\* until the execution is sealed and SUCCEEDED, FAILED or TIMED_OUT after.
C17_AsynchronousTrigger ==
    /\ [](\A id \in Ids : Started(id) =>
            /\ DescribeExecution(id).executionId = id
            /\ DescribeExecution(id).input = ConcurrentInput(id)
            /\ DescribeExecution(id).status \in
                  {"RUNNING", "SUCCEEDED", "FAILED", "TIMED_OUT"}
            /\ DescribeExecution(id).status = "RUNNING" <=>
                  engine[id].pc # "done"
            /\ DescribeExecution(id).status = "RUNNING" <=>
                  DescribeExecution(id).endedAt = -1)
    /\ [][\A id \in Ids :
             (~Started(id) /\ registry'[id].status # "NONE") =>
                 /\ registry'[id].status = "RUNNING"
                 /\ registry'[id].executionId = id
                 /\ registry'[id].stageOutcomes = << >>
                 /\ \A s \in Stages : invocations'[id][s] = 0
                 /\ engine'[id].pc = "ready"
                 /\ engine'[id].request = NoRequest
                 /\ returned'[id] = NoRequest
       ]_vars

\* One execution has ended FAILED, the other one was just started: both
\* records are read by their ids.
C17_Witness ==
    /\ \A id \in Ids : Started(id)
    /\ DescribeExecution("exec-1").status = "FAILED"
    /\ DescribeExecution("exec-2").status = "RUNNING"
    /\ DescribeExecution("exec-2").executionId = "exec-2"
    /\ engine["exec-2"].pc = "ready" /\ engine["exec-2"].current = 1
    /\ invocations["exec-2"][1] = 0

\* The errors that carry a service-unavailable, throttled or timeout signal.
TransientSignals ==
    ServiceExceptions \cup {"Lambda.TooManyRequestsException",
                            "Sandbox.Timedout"}

\* C18 as stated: an invocation that ends with a service-unavailable,
\* throttled or timeout error is retried while attempts remain.
C18_TransientSignalsRetried ==
    [][\A id \in Ids : \A err \in TransientSignals :
          (TaskFailed(id, err) /\ engine[id].retryCount + 1 < MaxAttempts) =>
              /\ engine'[id].pc = "backoff"
              /\ registry'[id].status = "RUNNING"
      ]_vars

\* C18: an invocation that ends with an error is retried exactly when the
\* error is an exception of the Lambda service and attempts remain; the
\* throttling of the function, the function's own timeout and the errors of
\* the handler end the stage at once.
C18_ServiceExceptionsRetried ==
    [][\A id \in Ids : \A err \in ErrorNames :
          TaskFailed(id, err) =>
              /\ engine'[id].pc = "backoff" <=>
                    /\ err \in ServiceExceptions
                    /\ engine[id].retryCount + 1 < MaxAttempts
              /\ engine'[id].pc = "backoff" =>
                    /\ registry'[id] = registry[id]
                    /\ engine'[id].retryCount = engine[id].retryCount + 1
              /\ engine'[id].pc # "backoff" =>
                    /\ engine'[id].pc = "done"
                    /\ registry'[id].status \in {"SUCCEEDED", "FAILED"}
                    /\ registry'[id].stageOutcomes[
                          Len(registry'[id].stageOutcomes)].attempts
                             = engine[id].retryCount + 1
      ]_vars

\* A service exception of the first stage was retried and the stage
\* succeeded; the second stage was throttled and failed at its first attempt.
C18_Witness ==
    \E id \in Ids :
        /\ Started(id) /\ registry[id].status = "FAILED"
        /\ Len(StageOutcomes(id)) = 2
        /\ StageOutcomes(id)[1].status = "Succeeded"
        /\ StageOutcomes(id)[1].attempts = 2
        /\ StageOutcomes(id)[2].error = "Lambda.TooManyRequestsException"
        /\ StageOutcomes(id)[2].attempts = 1

\* C19: an execution never goes back: no step returns to an earlier stage,
\* invokes the Lambda of an earlier stage or changes an outcome it has; the
\* step that fails the execution keeps the outcomes of the stages before and
\* invokes nothing, and in a FAILED execution every stage before the failing
\* one is Succeeded and was invoked exactly as often as its outcome says.
C19_NoRollback ==
    /\ [](\A id \in Ids :
            (Started(id) /\ registry[id].status = "FAILED") =>
                LET outcomes == StageOutcomes(id)
                IN /\ \A j \in 1 .. (Len(outcomes) - 1) :
                         outcomes[j].status = "Succeeded"
                   /\ \A j \in 1 .. Len(outcomes) :
                         invocations[id][j] = outcomes[j].attempts
                   /\ \A j \in (Len(outcomes) + 1) .. N :
                         invocations[id][j] = 0)
    /\ [][\A id \in Ids : Started(id) =>
             /\ engine'[id].current >= engine[id].current
             /\ \A j \in 1 .. (engine[id].current - 1) :
                   invocations'[id][j] = invocations[id][j]
             /\ \A j \in 1 .. Len(StageOutcomes(id)) :
                   /\ Len(registry'[id].stageOutcomes) >= j
                   /\ registry'[id].stageOutcomes[j] = StageOutcomes(id)[j]
             /\ (registry[id].status = "RUNNING"
                   /\ registry'[id].status = "FAILED") =>
                   /\ invocations'[id] = invocations[id]
                   /\ engine'[id].current = engine[id].current
                   /\ engine'[id].request = NoRequest
       ]_vars

\* The fourth stage failed after a retried third stage: three Succeeded
\* outcomes stay in the FAILED record.
C19_Witness ==
    \E id \in Ids :
        /\ Started(id) /\ registry[id].status = "FAILED"
        /\ Len(StageOutcomes(id)) = 4
        /\ StageOutcomes(id)[3].attempts = 2
        /\ StageOutcomes(id)[4].status = "Failed"
        /\ invocations[id][3] = 2
        /\ definition[4].catch = "Fail"

\* C20: the record of an execution is created RUNNING, without outcomes, not
\* ended and with the input as its payload; afterwards the input stays, and
\* the outcomes change only while the execution is RUNNING and only by one
\* outcome added at the end, the earlier ones unchanged and in place.
C20_RecordLifecycle ==
    [][\A id \in Ids :
          /\ (~Started(id) /\ registry'[id].status # "NONE") =>
                /\ registry'[id].status = "RUNNING"
                /\ registry'[id].stageOutcomes = << >>
                /\ registry'[id].input \in ExecutionInputs
                /\ registry'[id].payload = registry'[id].input
                /\ registry'[id].startedAt = now
                /\ registry'[id].endedAt = -1
                /\ registry'[id].error = NoError
          /\ Started(id) =>
                LET old == StageOutcomes(id)
                    new == registry'[id].stageOutcomes
                IN /\ registry'[id].input = registry[id].input
                   /\ registry'[id].startedAt = registry[id].startedAt
                   /\ \/ new = old
                      \/ /\ registry[id].status = "RUNNING"
                         /\ Len(new) = Len(old) + 1
                         /\ SubSeq(new, 1, Len(old)) = old
                         /\ new[Len(new)].stageName
                               = definition[Len(new)].id
      ]_vars

\* A running execution with three outcomes whose payload has moved on from
\* its input.
C20_Witness ==
    \E id \in Ids :
        /\ Started(id) /\ registry[id].status = "RUNNING"
        /\ Len(StageOutcomes(id)) = 3
        /\ registry[id].payload # registry[id].input
        /\ registry[id].endedAt = -1
        /\ engine[id].pc = "pending"

\* C21: the attempts of every outcome are the invocations of the stage's
\* Lambda made in the execution; when every stage before the last succeeded
\* and the last stage, whose catcher leads to a Succeed state, ended every
\* attempt with a service exception, the execution is SUCCEEDED with N
\* outcomes, the last one Skipped with the whole budget as its attempts.
C21_AttemptsAreInvocations ==
    \A id \in Ids : Started(id) =>
        LET outcomes == StageOutcomes(id)
        IN /\ \A k \in 1 .. Len(outcomes) :
                 /\ outcomes[k].attempts >= 1
                 /\ outcomes[k].attempts = invocations[id][k]
           /\ (/\ Len(outcomes) = N
               /\ definition[N].catch = "Succeed"
               /\ outcomes[N].error \in ServiceExceptions) =>
                 /\ registry[id].status = "SUCCEEDED"
                 /\ outcomes[N].status = "Skipped"
                 /\ outcomes[N].attempts = MaxAttempts
                 /\ invocations[id][N] = MaxAttempts
                 /\ \A j \in 1 .. (N - 1) : outcomes[j].status = "Succeeded"

\* The end-to-end scenario: the stages before the sync stage succeeded at
\* their first attempt, the sync stage used its budget and was skipped.
C21_Witness ==
    \E id \in Ids :
        /\ Started(id) /\ registry[id].status = "SUCCEEDED"
        /\ Len(StageOutcomes(id)) = N
        /\ \A j \in 1 .. (N - 1) :
              /\ StageOutcomes(id)[j].status = "Succeeded"
              /\ StageOutcomes(id)[j].attempts = 1
        /\ StageOutcomes(id)[N].stageName = "SyncKnowledgeBase"
        /\ StageOutcomes(id)[N].status = "Skipped"
        /\ StageOutcomes(id)[N].attempts = MaxAttempts
        /\ invocations[id][N] = MaxAttempts

\* The responses an execution has received: the attempts of its outcomes and
\* the failed attempts of the stage it was at when it timed out.
RECURSIVE Attempts(_)
Attempts(outcomes) ==
    IF outcomes = << >> THEN 0
    ELSE Head(outcomes).attempts + Attempts(Tail(outcomes))

ResponsesTaken(id) ==
    Attempts(StageOutcomes(id))
    + (IF registry[id].status = "TIMED_OUT" THEN engine[id].retryCount ELSE 0)

ExportStage(task) == task.lambdaFunction = "neptuneExporterFunction"

LastOutput(id) ==
    IF \E k \in 1 .. Len(StageOutcomes(id)) :
          StageOutcomes(id)[k].status = "Succeeded"
    THEN returned[id]
    ELSE registry[id].input

\* C24 as stated: the payload of a record is always the output of the most
\* recent stage that succeeded, also after a failure.
C24_PayloadIsLastOutput ==
    \A id \in Ids : Started(id) => registry[id].payload = LastOutput(id)

\* C24: the payload of a record is the output of the most recent stage that
\* succeeded (the input when none has) while stages succeed, are retried or
\* time out, and after the failure of a task without catcher; after the
\* failure of a task with a catcher it is that output with the error placed
\* under the key "error", every other key as it was.
C24_PayloadAfterFailure ==
    \A id \in Ids : Started(id) =>
        LET outcomes == StageOutcomes(id)
            K == Len(outcomes)
            caught == /\ K > 0
                      /\ outcomes[K].status # "Succeeded"
                      /\ definition[K].catch # "None"
        IN IF caught
           THEN /\ DOMAIN registry[id].payload
                      = DOMAIN LastOutput(id) \cup {"error"}
                /\ registry[id].payload.error.Error = outcomes[K].error
                /\ \A key \in DOMAIN LastOutput(id) \ {"error"} :
                      registry[id].payload[key] = LastOutput(id)[key]
                /\ registry[id].payload # LastOutput(id)
           ELSE registry[id].payload = LastOutput(id)

\* The extraction stage, whose catcher leads to a Fail state, failed after
\* a retry: the payload is the output of the second stage plus the error.
C24_Witness ==
    \E id \in Ids :
        /\ Started(id) /\ registry[id].status = "FAILED"
        /\ Len(StageOutcomes(id)) = 3
        /\ definition[3].catch = "Fail"
        /\ StageOutcomes(id)[3].attempts = 2
        /\ "error" \in DOMAIN registry[id].payload
        /\ registry[id].payload.markers = returned[id].markers
        /\ Len(returned[id].markers) >= 2

RECURSIVE Pow(_, _)
Pow(b, e) == IF e = 0 THEN 1 ELSE b * Pow(b, e - 1)

C26_TimeoutNotTolerated ==
    /\ [](\A id \in Ids : Started(id) =>
            /\ registry[id].status = "SUCCEEDED" =>
                  registry[id].endedAt - registry[id].startedAt
                     < StateMachineTimeout
            /\ \A k \in 1 .. Len(StageOutcomes(id)) :
                  StageOutcomes(id)[k].status = "Skipped" =>
                      StageOutcomes(id)[k].error \in ErrorNames)
    /\ [][\A id \in Ids :
             (/\ registry[id].status = "RUNNING"
              /\ now - registry[id].startedAt >= StateMachineTimeout
              /\ engine[id].current = N
              /\ definition[N].catch = "Succeed"
              /\ engine[id].pc \in {"pending", "backoff"}
              /\ << registry'[id], engine'[id], invocations'[id] >>
                    # << registry[id], engine[id], invocations[id] >>) =>
                 /\ registry'[id].status = "TIMED_OUT"
                 /\ registry'[id].error = StatesTimeout
                 /\ registry'[id].stageOutcomes = StageOutcomes(id)
                 /\ registry'[id].payload = registry[id].payload
                 /\ invocations'[id] = invocations[id]
                 /\ engine'[id].pc = "done"
       ]_vars

\* The execution timed out while its tolerable last stage waited for or ran
\* a retry.
C26_Witness ==
    \E id \in Ids :
        /\ Started(id) /\ registry[id].status = "TIMED_OUT"
        /\ definition[N].catch = "Succeed"
        /\ engine[id].current = N
        /\ Len(StageOutcomes(id)) = N - 1
        /\ engine[id].retryCount >= 1
        /\ registry[id].error = StatesTimeout

\* The invocations of stage s an execution has made that have not ended:
\* those made less those its outcome or its retry count account for.
InFlight(id, s) ==
    invocations[id][s]
    - (IF s <= Len(StageOutcomes(id)) THEN StageOutcomes(id)[s].attempts
       ELSE IF s = engine[id].current THEN engine[id].retryCount
       ELSE 0)

\* C27: an execution has at most one invocation in flight, that of its
\* current stage and only while it waits for the Lambda (or was timed out
\* waiting for it); an invocation is made only when none is in flight, so a
\* retry never starts before the attempt before it has ended, and no stage
\* is invoked while another one runs.
C27_OneInvocationInFlight ==
    /\ [](\A id \in Ids : Started(id) =>
            /\ \A s \in Stages :
                  /\ InFlight(id, s) \in {0, 1}
                  /\ InFlight(id, s) = 1 => s = engine[id].current
            /\ registry[id].status = "RUNNING" =>
                  /\ engine[id].pc = "pending" <=>
                        InFlight(id, engine[id].current) = 1
                  /\ engine[id].pc = "pending" <=>
                        engine[id].request # NoRequest
            /\ registry[id].status \in {"SUCCEEDED", "FAILED"} =>
                  \A s \in Stages : InFlight(id, s) = 0)
    /\ [][\A id \in Ids : Started(id) =>
             \A s \in Stages :
                 invocations'[id][s] # invocations[id][s] =>
                     /\ invocations'[id][s] = invocations[id][s] + 1
                     /\ \A t \in Stages : InFlight(id, t) = 0
                     /\ s = engine[id].current
                     /\ \A t \in Stages \ {s} :
                           invocations'[id][t] = invocations[id][t]
       ]_vars

\* The second attempt of the third stage is in flight, after the first one
\* has ended with an error.
C27_Witness ==
    \E id \in Ids :
        /\ Started(id) /\ registry[id].status = "RUNNING"
        /\ engine[id].current = 3 /\ engine[id].pc = "pending"
        /\ engine[id].retryCount = 1
        /\ invocations[id][3] = 2
        /\ InFlight(id, 3) = 1

\* C28: the outcomes of an execution are never more than the stages of its
\* chain, the i-th outcome is that of the i-th stage of the chain, so that no
\* stage has two outcomes, and an execution that ended SUCCEEDED has an
\* outcome for every stage.
C28_OutcomesPrefixOfDefinition ==
    \A id \in Ids : Started(id) =>
        /\ Len(StageOutcomes(id)) <= N
        /\ \A i \in 1 .. Len(StageOutcomes(id)) :
              StageOutcomes(id)[i].stageName = definition[i].id
        /\ \A i, j \in 1 .. Len(StageOutcomes(id)) :
              StageOutcomes(id)[i].stageName = StageOutcomes(id)[j].stageName
                  => i = j
        /\ registry[id].status = "SUCCEEDED" => Len(StageOutcomes(id)) = N

\* An execution of a chain of five stages or more has ended SUCCEEDED with
\* an outcome for each, the last one Skipped.
C28_Witness ==
    \E id \in Ids :
        /\ registry[id].status = "SUCCEEDED"
        /\ N >= 5
        /\ Len(StageOutcomes(id)) = N
        /\ StageOutcomes(id)[N].status = "Skipped"
        /\ StageOutcomes(id)[1].attempts >= 2

\* C29: a Failed outcome is the last outcome of the execution and that of a
\* stage whose failure ends the execution as failed, a Skipped outcome is
\* that of a stage whose catcher leads to the successful end, every outcome
\* before the last one is Succeeded or Skipped, and an execution with a
\* Failed outcome has the status FAILED.
C29_FailedOutcomeIsLastAndFatal ==
    \A id \in Ids : Started(id) =>
        LET outcomes == StageOutcomes(id)
        IN /\ \A i \in 1 .. Len(outcomes) :
                 /\ outcomes[i].status \in {"Succeeded", "Skipped", "Failed"}
                 /\ outcomes[i].status = "Failed" =>
                       /\ i = Len(outcomes)
                       /\ definition[i].catch # "Succeed"
                       /\ registry[id].status = "FAILED"
                 /\ outcomes[i].status = "Skipped" =>
                       definition[i].catch = "Succeed"
                 /\ i < Len(outcomes) =>
                       outcomes[i].status \in {"Succeeded", "Skipped"}
           /\ registry[id].status = "FAILED" =>
                 /\ Len(outcomes) >= 1
                 /\ outcomes[Len(outcomes)].status = "Failed"

\* An execution has failed at its third stage, whose catcher leads to a Fail
\* state, after the two stages before it had succeeded.
C29_Witness ==
    \E id \in Ids :
        /\ registry[id].status = "FAILED"
        /\ Len(StageOutcomes(id)) = 3
        /\ StageOutcomes(id)[3].status = "Failed"
        /\ definition[3].catch = "Fail"
        /\ StageOutcomes(id)[1].status = "Succeeded"
        /\ StageOutcomes(id)[2].status = "Succeeded"

DataExtractorStage(task) == task.lambdaFunction = "dataExtractorFunction"

====
